---- MODULE Spec2Model ----
(***************************************************************************)
(* Model of src/storage/tracked.rs: the change-tracking storage wrapper    *)
(* TrackedStorage (Change Log `changes`, Dirty Set `changed`, Snapshot     *)
(* Store `old`, Live Store `storage`), the tag algebra Change::add and the *)
(* event iterator ChangeEvents.                                            *)
(***************************************************************************)
EXTENDS Integers, Sequences, FiniteSets, TLC

\* ---------------------------------------------------------------- bounds
MaxId == 1
MaxVal == 2
MaxEvents == 3

Ids == 0..MaxId
Values == 1..MaxVal

\* -------------------------------------------------------- enum Change
None == "None"
Inserted == "Inserted"
Modified == "Modified"
Removed == "Removed"
Change == {None, Inserted, Modified, Removed}

\* outcome of the panic! arm of Change::add
Panic == "panic"

\* a slot of the backend store that holds no value
Absent == 0

\* changed, changes, old, storage: the fields of TrackedStorage
\* fatal: Change::add has panicked        op: name of the last operation
\* watch: the id X whose epoch is followed
\* raw: the events recorded for X since the last reset, in order
\* liveAtStart: X held a value when the current epoch began
\* rec: arguments of the last direct insert_change call
\* reader: the ChangeEvents iterator (pos: entries consumed, or NoIter), the
\*   pairs it has yielded (out) and the sequences collected since the last
\*   mutating operation (got)
\* join: ids inserted or overwritten since the previous maintain pass
\*   (touched), that set as of the last pass (last), and whether the last
\*   operation was a maintain pass (fresh)
VARIABLES changed, changes, old, storage, fatal, op, watch, raw, liveAtStart,
          rec, reader, join

vars == <<changed, changes, old, storage, fatal, op, watch, raw, liveAtStart,
          rec, reader, join>>

\* ---------------------------------------------------------- Change::add
add_identity_on_none(self, change) ==
    IF self = None THEN change
    ELSE IF change = None THEN self
    ELSE IF self = Inserted /\ change = Modified THEN Inserted
    ELSE IF self = Inserted /\ change = Removed THEN None
    ELSE IF self = Modified /\ change = Modified THEN Modified
    ELSE IF self = Modified /\ change = Removed THEN Removed
    ELSE IF self = Removed /\ change = Inserted THEN Modified
    ELSE Panic

add_absorbs_invalid(self, change) ==
    IF self = None THEN change
    ELSE IF self = Inserted /\ change = Modified THEN Inserted
    ELSE IF self = Inserted /\ change = Removed THEN None
    ELSE IF self = Modified /\ change = Modified THEN Modified
    ELSE IF self = Modified /\ change = Removed THEN Removed
    ELSE IF self = Removed /\ change = Inserted THEN Modified
    ELSE change

add_modified_wins(self, change) ==
    IF self = None THEN change
    ELSE IF self = Inserted /\ change = Modified THEN Modified
    ELSE IF self = Inserted /\ change = Removed THEN None
    ELSE IF self = Modified /\ change = Modified THEN Modified
    ELSE IF self = Modified /\ change = Removed THEN Removed
    ELSE IF self = Removed /\ change = Inserted THEN Modified
    ELSE Panic

add_insert_remove_keeps_removed(self, change) ==
    IF self = None THEN change
    ELSE IF self = Inserted /\ change = Modified THEN Inserted
    ELSE IF self = Inserted /\ change = Removed THEN Removed
    ELSE IF self = Modified /\ change = Modified THEN Modified
    ELSE IF self = Modified /\ change = Removed THEN Removed
    ELSE IF self = Removed /\ change = Inserted THEN Modified
    ELSE Panic

add_reinsert_is_inserted(self, change) ==
    IF self = None THEN change
    ELSE IF self = Inserted /\ change = Modified THEN Inserted
    ELSE IF self = Inserted /\ change = Removed THEN None
    ELSE IF self = Modified /\ change = Modified THEN Modified
    ELSE IF self = Modified /\ change = Removed THEN Removed
    ELSE IF self = Removed /\ change = Inserted THEN Inserted
    ELSE Panic

add_modified_survives_remove(self, change) ==
    IF self = None THEN change
    ELSE IF self = Inserted /\ change = Modified THEN Inserted
    ELSE IF self = Inserted /\ change = Removed THEN None
    ELSE IF self = Modified /\ change = Modified THEN Modified
    ELSE IF self = Modified /\ change = Removed THEN Modified
    ELSE IF self = Removed /\ change = Inserted THEN Modified
    ELSE Panic

add_no_modified_modified(self, change) ==
    IF self = None THEN change
    ELSE IF self = Inserted /\ change = Modified THEN Inserted
    ELSE IF self = Inserted /\ change = Removed THEN None
    ELSE IF self = Modified /\ change = Removed THEN Removed
    ELSE IF self = Removed /\ change = Inserted THEN Modified
    ELSE Panic

\* the match of Change::add, arms tried in source order; the last arm panics
add(self, change) ==
    IF self = None THEN change
    ELSE IF self = Inserted /\ change = Modified THEN Inserted
    ELSE IF self = Inserted /\ change = Removed THEN None
    ELSE IF self = Modified /\ change = Modified THEN Modified
    ELSE IF self = Modified /\ change = Removed THEN Removed
    ELSE IF self = Removed /\ change = Inserted THEN Modified
    ELSE Panic

\* ------------------------------------------- TrackedStorage::insert_change
max(a, b) == IF a >= b THEN a ELSE b

\* changes.extend(repeat(Change::None).take(max(ind + 1, len) - len))
extend(chs, ind) ==
    chs \o [i \in 1..(max(ind + 1, Len(chs)) - Len(chs)) |-> None]

\* index `ind` of the Vec is element ind + 1 of the sequence
insert_change(chs, id, val) ==
    LET grown == extend(chs, id)
        new == add(grown[id + 1], val)
    IN IF new = Panic
       THEN [changes |-> grown, panicked |-> TRUE]
       ELSE [changes |-> [grown EXCEPT ![id + 1] = new], panicked |-> FALSE]

\* tag of id in a log; an index beyond the log's length has no entry yet
tag_of(chs, id) == IF id + 1 <= Len(chs) THEN chs[id + 1] ELSE None

\* ------------------------------------------------ ChangeEvents / change_events
RECURSIVE events_skip_removed(_, _)
events_skip_removed(chs, i) ==
    IF i >= Len(chs) THEN <<>>
    ELSE IF chs[i + 1] # None /\ chs[i + 1] # Removed
         THEN <<<<i, chs[i + 1]>>>> \o events_skip_removed(chs, i + 1)
         ELSE events_skip_removed(chs, i + 1)

\* repeated ChangeEvents::next over enumerate(): find the next entry that is
\* not Change::None and yield (index, tag)
RECURSIVE events_from(_, _)
events_from(chs, i) ==
    IF i >= Len(chs) THEN <<>>
    ELSE IF chs[i + 1] # None
         THEN <<<<i, chs[i + 1]>>>> \o events_from(chs, i + 1)
         ELSE events_from(chs, i + 1)

change_events == events_from(changes, 0)

\* ------------------------------------------------------------ liveness mask
\* ids that hold a value in the Live Store
Live == {id \in Ids : storage[id] # Absent}

\* ------------------------------------------------- TrackedStorage::maintain
\* set.iter().filter(old != storage).for_each(insert_change(.., Modified)),
\* ids visited in ascending order; a panic ends the pass at id `stopped`
RECURSIVE maintain_from(_, _, _, _, _)
maintain_from(chs, o, s, set, id) ==
    IF id > MaxId THEN [changes |-> chs, panicked |-> FALSE, stopped |-> id]
    ELSE IF id \in set /\ o[id] # s[id]
         THEN LET r == insert_change(chs, id, Modified)
              IN IF r.panicked
                 THEN [changes |-> r.changes, panicked |-> TRUE, stopped |-> id]
                 ELSE maintain_from(r.changes, o, s, set, id + 1)
         ELSE maintain_from(chs, o, s, set, id + 1)

maintain(set) ==
    LET r == maintain_from(changes, old, storage, set, 0)
    IN /\ changes' = r.changes
       /\ fatal' = r.panicked
       /\ UNCHANGED <<changed, old, storage>>

\* the pass over `set` reaches id and records Modified for it
maintain_records(set, id) ==
    /\ id \in set
    /\ old[id] # storage[id]
    /\ id <= maintain_from(changes, old, storage, set, 0).stopped

\* ---------------------------------------------------- TrackedStorage::reset
\* ids that hold a value in a backend store
populated(s) == {id \in Ids : s[id] # Absent}

\* outcomes of the re-baseline loop once it reads or writes a slot that holds
\* no value: the backend keeps no presence of its own, so no slot is created
\* or destroyed, but any snapshot value may have been overwritten
rebaseline_garbage(o) ==
    {f \in [Ids -> Values \cup {Absent}] : populated(f) = populated(o)}

reset_clears_dirty_entries_only ==
    /\ IF \A id \in changed : storage[id] # Absent /\ old[id] # Absent
       THEN old' = [id \in Ids |-> IF id \in changed THEN storage[id]
                                    ELSE old[id]]
       ELSE old' \in rebaseline_garbage(old)
    /\ changed' = {}
    /\ changes' = [i \in 1..Len(changes) |->
                      IF (i - 1) \in changed THEN None ELSE changes[i]]
    /\ UNCHANGED <<storage, fatal>>

\* for id in &changed { *old.get_mut(id) = storage.get(id).clone() }; reading
\* or writing a slot that holds no value is undefined
reset ==
    /\ IF \A id \in changed : storage[id] # Absent /\ old[id] # Absent
       THEN old' = [id \in Ids |-> IF id \in changed THEN storage[id]
                                    ELSE old[id]]
       ELSE old' \in rebaseline_garbage(old)
    /\ changed' = {}
    /\ changes' = [i \in 1..Len(changes) |-> None]
    /\ UNCHANGED <<storage, fatal>>

\* --------------------------------------------------- TrackedStorage::insert
insert(id, value) ==
    LET r == insert_change(changes, id, Inserted)
    IN /\ changed' = changed \cup {id}
       /\ changes' = r.changes
       /\ fatal' = r.panicked
       /\ IF r.panicked
          THEN UNCHANGED <<old, storage>>
          ELSE /\ old' = [old EXCEPT ![id] = value]
               /\ storage' = [storage EXCEPT ![id] = value]

\* --------------------------------------------------- TrackedStorage::remove
remove_keeps_marked(id) ==
    LET r == insert_change(changes, id, Removed)
    IN /\ changes' = r.changes
       /\ fatal' = r.panicked
       /\ IF r.panicked
          THEN UNCHANGED <<old, storage>>
          ELSE /\ old' = [old EXCEPT ![id] = Absent]
               /\ storage' = [storage EXCEPT ![id] = Absent]
       /\ UNCHANGED changed

remove_leaves_snapshot(id) ==
    LET r == insert_change(changes, id, Removed)
    IN /\ changed' = changed \ {id}
       /\ changes' = r.changes
       /\ fatal' = r.panicked
       /\ IF r.panicked
          THEN UNCHANGED <<old, storage>>
          ELSE /\ old' = old
               /\ storage' = [storage EXCEPT ![id] = Absent]

remove(id) ==
    LET r == insert_change(changes, id, Removed)
    IN /\ changed' = changed \ {id}
       /\ changes' = r.changes
       /\ fatal' = r.panicked
       /\ IF r.panicked
          THEN UNCHANGED <<old, storage>>
          ELSE /\ old' = [old EXCEPT ![id] = Absent]
               /\ storage' = [storage EXCEPT ![id] = Absent]

\* -------------------------------------------------- TrackedStorage::get_mut
get_mut_marks_changed(id, value) ==
    /\ storage' = [storage EXCEPT ![id] = value]
    /\ changed' = changed \cup {id}
    /\ UNCHANGED <<changes, old, fatal>>

\* the caller overwrites the value through the returned &mut C
get_mut(id, value) ==
    /\ storage' = [storage EXCEPT ![id] = value]
    /\ UNCHANGED <<changed, changes, old, fatal>>

\* ---------------------------------------------------- TrackedStorage::clean
\* the backend store drops the slots the predicate selects
store_clean(s, f) == [id \in Ids |-> IF id \in f THEN Absent ELSE s[id]]

clean_unmarks(f) ==
    /\ old' = store_clean(old, f)
    /\ storage' = store_clean(storage, f)
    /\ changed' = changed \ f
    /\ UNCHANGED <<changes, fatal>>

clean(f) ==
    /\ old' = store_clean(old, f)
    /\ storage' = store_clean(storage, f)
    /\ UNCHANGED <<changed, changes, fatal>>

\* ------------------------------------ insert_change called on its own
record(id, val) ==
    LET r == insert_change(changes, id, val)
    IN /\ changes' = r.changes
       /\ fatal' = r.panicked
       /\ UNCHANGED <<changed, old, storage>>

\* ----------------------------------------------- ChangeEvents as an iterator
MaxReads == 2

NoIter == -1

IdleReader == [pos |-> NoIter, out |-> <<>>, got |-> <<>>]

\* TrackedStorage::change_events: a new iterator at the start of the log
change_events_iter ==
    /\ reader.pos = NoIter
    /\ reader' = [reader EXCEPT !.pos = 0, !.out = <<>>]
    /\ UNCHANGED <<changed, changes, old, storage, fatal>>

\* inner.find(|&(_, &c)| c != Change::None): indices from pos on whose entry
\* is not None
find_from(chs, pos) == {i \in pos..(Len(chs) - 1) : chs[i + 1] # None}

least(S) == CHOOSE i \in S : \A j \in S : i <= j

events_next_draining ==
    /\ reader.pos # NoIter
    /\ LET found == find_from(changes, reader.pos)
       IN IF found = {}
          THEN /\ reader' = [pos |-> NoIter, out |-> <<>>,
                             got |-> Append(reader.got, reader.out)]
               /\ changes' = changes
          ELSE LET i == least(found)
               IN /\ reader' = [reader EXCEPT
                                   !.pos = i + 1,
                                   !.out = Append(@, <<i, changes[i + 1]>>)]
                  /\ changes' = [changes EXCEPT ![i + 1] = None]
    /\ UNCHANGED <<changed, old, storage, fatal>>

\* ChangeEvents::next: yield the next (index, tag) whose tag is not None, or
\* end the iteration (the caller's collect() then has the whole sequence)
events_next ==
    /\ reader.pos # NoIter
    /\ LET found == find_from(changes, reader.pos)
       IN IF found = {}
          THEN reader' = [pos |-> NoIter, out |-> <<>>,
                          got |-> Append(reader.got, reader.out)]
          ELSE LET i == least(found)
               IN reader' = [reader EXCEPT
                                !.pos = i + 1,
                                !.out = Append(@, <<i, changes[i + 1]>>)]
    /\ UNCHANGED <<changed, changes, old, storage, fatal>>

\* ------------------------------------------------------------ specifications
NoRec == [id |-> 0, val |-> None]

NoJoin == [touched |-> {}, last |-> {}, fresh |-> FALSE]

\* TrackedStorage::default()
InitFields ==
    /\ changed = {}
    /\ changes = <<>>
    /\ old = [id \in Ids |-> Absent]
    /\ storage = [id \in Ids |-> Absent]
    /\ fatal = FALSE

\* Spec, SpecClean, SpecRecord: every operation is named in op; no id is
\* followed.  The caller respects liveness: insert at a non-live id, remove
\* and get_mut at a live id, maintain over the liveness mask.
Init ==
    /\ InitFields
    /\ op = "new"
    /\ watch = 0
    /\ raw = <<>>
    /\ liveAtStart = FALSE
    /\ rec = NoRec
    /\ reader = IdleReader
    /\ join = NoJoin

DoInsert ==
    \E id \in Ids \ Live, value \in Values :
        /\ ~fatal
        /\ insert(id, value)
        /\ op' = "insert"
        /\ UNCHANGED <<watch, raw, liveAtStart, rec, reader, join>>

DoRemove ==
    \E id \in Live :
        /\ ~fatal
        /\ remove(id)
        /\ op' = "remove"
        /\ UNCHANGED <<watch, raw, liveAtStart, rec, reader, join>>

DoGetMut ==
    \E id \in Live, value \in Values :
        /\ ~fatal
        /\ get_mut(id, value)
        /\ op' = "get_mut"
        /\ UNCHANGED <<watch, raw, liveAtStart, rec, reader, join>>

DoMaintain ==
    /\ ~fatal
    /\ maintain(Live)
    /\ op' = "maintain"
    /\ UNCHANGED <<watch, raw, liveAtStart, rec, reader, join>>

DoReset ==
    /\ ~fatal
    /\ reset
    /\ op' = "reset"
    /\ UNCHANGED <<watch, raw, liveAtStart, rec, reader, join>>

DoClean ==
    \E f \in SUBSET Ids :
        /\ ~fatal
        /\ f # {}
        /\ clean(f)
        /\ op' = "clean"
        /\ UNCHANGED <<watch, raw, liveAtStart, rec, reader, join>>

DoRecord ==
    \E id \in Ids, val \in Change :
        /\ ~fatal
        /\ record(id, val)
        /\ rec' = [id |-> id, val |-> val]
        /\ op' = "record"
        /\ UNCHANGED <<watch, raw, liveAtStart, reader, join>>

Next == DoInsert \/ DoRemove \/ DoGetMut \/ DoMaintain \/ DoReset

Spec == Init /\ [][Next]_vars

NextClean == DoInsert \/ DoRemove \/ DoGetMut \/ DoMaintain \/ DoReset \/ DoClean

SpecClean == Init /\ [][NextClean]_vars

NextRecord == DoRecord

SpecRecord == Init /\ [][NextRecord]_vars

\* SpecEpoch: the same caller, with one id X = watch followed through each
\* epoch: raw lists the events recorded for X since the last reset.
InitEpoch ==
    /\ InitFields
    /\ op = "new"
    /\ watch \in Ids
    /\ raw = <<>>
    /\ liveAtStart = FALSE
    /\ rec = NoRec
    /\ reader = IdleReader
    /\ join = NoJoin

EpochInsert ==
    \E id \in Ids \ Live, value \in Values :
        /\ ~fatal
        /\ id = watch => Len(raw) < MaxEvents
        /\ insert(id, value)
        /\ raw' = IF id = watch THEN Append(raw, Inserted) ELSE raw
        /\ UNCHANGED <<op, watch, liveAtStart, rec, reader, join>>

EpochRemove ==
    \E id \in Live :
        /\ ~fatal
        /\ id = watch => Len(raw) < MaxEvents
        /\ remove(id)
        /\ raw' = IF id = watch THEN Append(raw, Removed) ELSE raw
        /\ UNCHANGED <<op, watch, liveAtStart, rec, reader, join>>

EpochGetMut ==
    \E id \in Live, value \in Values :
        /\ ~fatal
        /\ get_mut(id, value)
        /\ UNCHANGED <<op, watch, raw, liveAtStart, rec, reader, join>>

EpochMaintain ==
    /\ ~fatal
    /\ maintain_records(Live, watch) => Len(raw) < MaxEvents
    /\ maintain(Live)
    /\ raw' = IF maintain_records(Live, watch)
              THEN Append(raw, Modified) ELSE raw
    /\ UNCHANGED <<op, watch, liveAtStart, rec, reader, join>>

EpochReset ==
    /\ ~fatal
    /\ reset
    /\ raw' = <<>>
    /\ liveAtStart' = (watch \in Live)
    /\ UNCHANGED <<op, watch, rec, reader, join>>

NextEpoch ==
    EpochInsert \/ EpochRemove \/ EpochGetMut \/ EpochMaintain \/ EpochReset

SpecEpoch == InitEpoch /\ [][NextEpoch]_vars

\* SpecUnchecked: as SpecEpoch, but the caller may repeat a structural call
\* on X: insert X while it is live, remove X when it is already Removed.  (A
\* remove at an id that never held a value is left out: the backend's remove
\* of an empty slot is undefined before any tag is in question.)
UncheckedInsert ==
    \E id \in (Ids \ Live) \cup {watch}, value \in Values :
        /\ ~fatal
        /\ id = watch => Len(raw) < MaxEvents
        /\ insert(id, value)
        /\ raw' = IF id = watch THEN Append(raw, Inserted) ELSE raw
        /\ UNCHANGED <<op, watch, liveAtStart, rec, reader, join>>

UncheckedRemove ==
    \E id \in Live \cup {i \in {watch} : tag_of(changes, i) = Removed} :
        /\ ~fatal
        /\ id = watch => Len(raw) < MaxEvents
        /\ remove(id)
        /\ raw' = IF id = watch THEN Append(raw, Removed) ELSE raw
        /\ UNCHANGED <<op, watch, liveAtStart, rec, reader, join>>

\* in-place overwrites are followed on X only
UncheckedGetMut ==
    \E value \in Values :
        /\ ~fatal
        /\ watch \in Live
        /\ get_mut(watch, value)
        /\ UNCHANGED <<op, watch, raw, liveAtStart, rec, reader, join>>

NextUnchecked ==
    \/ UncheckedInsert
    \/ UncheckedRemove
    \/ UncheckedGetMut
    \/ EpochMaintain
    \/ EpochReset

SpecUnchecked == InitEpoch /\ [][NextUnchecked]_vars

\* SpecEvents: the liveness-respecting caller reads events() between
\* operations; the iterator borrows the storage, so no operation runs while
\* one is alive.
EventsStart ==
    /\ ~fatal
    /\ Len(reader.got) < MaxReads
    /\ change_events_iter
    /\ UNCHANGED <<op, watch, raw, liveAtStart, rec, join>>

EventsNext ==
    /\ ~fatal
    /\ events_next
    /\ UNCHANGED <<op, watch, raw, liveAtStart, rec, join>>

EventsInsert ==
    \E id \in Ids \ Live, value \in Values :
        /\ ~fatal
        /\ reader.pos = NoIter
        /\ insert(id, value)
        /\ reader' = IdleReader
        /\ UNCHANGED <<op, watch, raw, liveAtStart, rec, join>>

EventsRemove ==
    \E id \in Live :
        /\ ~fatal
        /\ reader.pos = NoIter
        /\ remove(id)
        /\ reader' = IdleReader
        /\ UNCHANGED <<op, watch, raw, liveAtStart, rec, join>>

EventsGetMut ==
    \E id \in Live, value \in Values :
        /\ ~fatal
        /\ reader.pos = NoIter
        /\ get_mut(id, value)
        /\ reader' = IdleReader
        /\ UNCHANGED <<op, watch, raw, liveAtStart, rec, join>>

EventsMaintain ==
    /\ ~fatal
    /\ reader.pos = NoIter
    /\ maintain(Live)
    /\ reader' = IdleReader
    /\ UNCHANGED <<op, watch, raw, liveAtStart, rec, join>>

EventsReset ==
    /\ ~fatal
    /\ reader.pos = NoIter
    /\ reset
    /\ reader' = IdleReader
    /\ UNCHANGED <<op, watch, raw, liveAtStart, rec, join>>

NextEvents ==
    \/ EventsStart
    \/ EventsNext
    \/ EventsInsert
    \/ EventsRemove
    \/ EventsGetMut
    \/ EventsMaintain
    \/ EventsReset

SpecEvents == Init /\ [][NextEvents]_vars

\* SpecJoin: the liveness-respecting caller with no reset, as in
\* tests::join_changed; join follows what was inserted or overwritten between
\* maintain passes.
JoinInsert ==
    \E id \in Ids \ Live, value \in Values :
        /\ ~fatal
        /\ insert(id, value)
        /\ join' = [touched |-> join.touched \cup {id}, last |-> join.last,
                    fresh |-> FALSE]
        /\ UNCHANGED <<op, watch, raw, liveAtStart, rec, reader>>

JoinRemove ==
    \E id \in Live :
        /\ ~fatal
        /\ remove(id)
        /\ join' = [touched |-> join.touched \ {id}, last |-> join.last,
                    fresh |-> FALSE]
        /\ UNCHANGED <<op, watch, raw, liveAtStart, rec, reader>>

JoinGetMut ==
    \E id \in Live, value \in Values :
        /\ ~fatal
        /\ get_mut(id, value)
        /\ join' = [touched |-> join.touched \cup {id}, last |-> join.last,
                    fresh |-> FALSE]
        /\ UNCHANGED <<op, watch, raw, liveAtStart, rec, reader>>

JoinMaintain ==
    /\ ~fatal
    /\ maintain(Live)
    /\ join' = [touched |-> {}, last |-> join.touched, fresh |-> TRUE]
    /\ UNCHANGED <<op, watch, raw, liveAtStart, rec, reader>>

NextJoin == JoinInsert \/ JoinRemove \/ JoinGetMut \/ JoinMaintain

SpecJoin == Init /\ [][NextJoin]_vars

TypeOK ==
    /\ changed \subseteq Ids
    /\ changes \in Seq(Change) /\ Len(changes) <= MaxId + 1
    /\ old \in [Ids -> Values \cup {Absent}]
    /\ storage \in [Ids -> Values \cup {Absent}]
    /\ fatal \in BOOLEAN
    /\ watch \in Ids
    /\ raw \in Seq({Inserted, Modified, Removed}) /\ Len(raw) <= MaxEvents
    /\ liveAtStart \in BOOLEAN
    /\ rec \in [id : Ids, val : Change]
    /\ reader.pos \in {NoIter} \cup 0..(MaxId + 1)
    /\ Len(reader.got) <= MaxReads
    /\ join \in [touched : SUBSET Ids, last : SUBSET Ids, fresh : BOOLEAN]

\* ------------------------------------------------------------------ claims
tag(id) == tag_of(changes, id)

EventSet == {change_events[k] : k \in 1..Len(change_events)}

\* the inserts and removes recorded for X in this epoch, in order
structural == SelectSeq(raw, LAMBDA e : e # Modified)

\* the merge table of the design, as (old, incoming) -> new
merge(o, inc) ==
    CASE o = None -> inc
      [] o # None /\ inc = None -> o
      [] o = Inserted /\ inc = Modified -> Inserted
      [] o = Inserted /\ inc = Removed -> None
      [] o = Modified /\ inc = Modified -> Modified
      [] o = Modified /\ inc = Removed -> Removed
      [] o = Removed /\ inc = Inserted -> Modified
      [] OTHER -> "invalid"

Invalid == {<<Inserted, Inserted>>, <<Modified, Inserted>>,
            <<Removed, Modified>>, <<Removed, Removed>>}

\* C1: in every reachable state the Dirty Set is exactly the set of ids whose
\* Change Log entry is Inserted or Modified.
C1_DirtySetMatchesLog ==
    changed = {id \in Ids : tag(id) \in {Inserted, Modified}}

\* C2: a maintain pass records merge(previous tag, Modified) for every live id
\* whose snapshot differs from its live value and puts the id in the Dirty
\* Set; for a live id whose values are equal, tag and membership are unchanged.
C2_MaintainMarksDiffering ==
    [][op' = "maintain" =>
        \A id \in Live :
            IF old[id] # storage[id]
            THEN /\ tag_of(changes', id) = merge(tag(id), Modified)
                 /\ id \in changed'
            ELSE /\ tag_of(changes', id) = tag(id)
                 /\ (id \in changed') = (id \in changed)]_vars

\* C3 as stated: Change::add gives the table's result for every pair to which
\* the table gives one, the None column included.
C3_AddImplementsWholeTable ==
    [][op' = "record" =>
        LET o == tag_of(changes, rec'.id)
            inc == rec'.val
        IN <<o, inc>> \notin Invalid =>
              /\ ~fatal'
              /\ tag_of(changes', rec'.id) = merge(o, inc)]_vars

\* C3 amended: Change::add gives merge(None, x) = x for all four x,
\* (Inserted, Modified) = Inserted, (Inserted, Removed) = None,
\* (Modified, Modified) = Modified, (Modified, Removed) = Removed,
\* (Removed, Inserted) = Modified; an incoming None on an old tag other than
\* None ends in the fatal error and the entry keeps the old tag.
C3_AddTable ==
    [][op' = "record" =>
        LET o == tag_of(changes, rec'.id)
            inc == rec'.val
            new == tag_of(changes', rec'.id)
        IN /\ o = None => (~fatal' /\ new = inc)
           /\ (o = Inserted /\ inc = Modified) => (~fatal' /\ new = Inserted)
           /\ (o = Inserted /\ inc = Removed) => (~fatal' /\ new = None)
           /\ (o = Modified /\ inc = Modified) => (~fatal' /\ new = Modified)
           /\ (o = Modified /\ inc = Removed) => (~fatal' /\ new = Removed)
           /\ (o = Removed /\ inc = Inserted) => (~fatal' /\ new = Modified)
           /\ (o # None /\ inc = None) => (fatal' /\ new = o)]_vars

C3_Witness ==
    \/ op = "record" /\ fatal /\ rec.val = None /\ tag(rec.id) = Modified
    \/ op = "record" /\ ~fatal /\ rec.val = Inserted /\ tag(rec.id) = Modified

\* C4: recording an event on an invalid pair, (Inserted, Inserted),
\* (Modified, Inserted), (Removed, Modified) or (Removed, Removed), ends in the
\* fatal error and the Change Log entry keeps its old tag.
C4_InvalidPairIsFatal ==
    [][op' = "record" =>
        LET o == tag_of(changes, rec'.id)
        IN <<o, rec'.val>> \in Invalid =>
              /\ fatal'
              /\ changes' = changes
              /\ tag_of(changes', rec'.id) = o]_vars

C4_Witness ==
    /\ op = "record" /\ fatal
    /\ <<tag(rec.id), rec.val>> = <<Removed, Modified>>

\* C5: right after reset the Dirty Set is empty, every Change Log entry is
\* None and events() is empty; this stays so until the next insert, remove or
\* maintain pass that detects a difference.
Quiet ==
    /\ changed = {}
    /\ \A i \in 1..Len(changes) : changes[i] = None
    /\ change_events = <<>>

C5_ResetClearsAll ==
    /\ [](op = "reset" => Quiet)
    /\ [][(/\ Quiet
           /\ op' \notin {"insert", "remove"}
           /\ ~(op' = "maintain" /\ \E id \in Live : old[id] # storage[id]))
          => Quiet']_vars

C5_Witness ==
    /\ op = "reset"
    /\ Len(changes) = MaxId + 1
    /\ Cardinality(Live) = 1

\* C6: events() yields exactly one pair (i, log[i]) for each index whose tag
\* is not None, none for a None index, in strictly ascending id order; after
\* a single insert of X into a new tracker it is exactly [(X, Inserted)].
C6_EventsMatchLog ==
    /\ [](LET ev == change_events
          IN /\ \A k \in 1..Len(ev) : ev[k][1] \in 0..(Len(changes) - 1)
             /\ \A i \in 0..(Len(changes) - 1) :
                   IF changes[i + 1] # None
                   THEN /\ Cardinality({k \in 1..Len(ev) : ev[k][1] = i}) = 1
                        /\ <<i, changes[i + 1]>> \in EventSet
                   ELSE \A k \in 1..Len(ev) : ev[k][1] # i
             /\ \A k \in 1..(Len(ev) - 1) : ev[k][1] < ev[k + 1][1])
    /\ [][(op = "new" /\ op' = "insert") =>
             \E X \in Ids : /\ Live' = {X}
                            /\ change_events' = <<<<X, Inserted>>>>]_vars

C6_Witness ==
    /\ Len(changes) = MaxId + 1
    /\ changes[1] = Removed
    /\ changes[MaxId + 1] = Modified
    /\ Len(change_events) = 2

\* C7: for X live at the start of the epoch, remove(X) then insert(X, v) in
\* the same epoch, with or without maintain passes, shows as the single event
\* (X, Modified), and X is in the Dirty Set.
C7_RemoveInsertIsModified ==
    (liveAtStart /\ structural = <<Removed, Inserted>>) =>
        /\ tag(watch) = Modified
        /\ <<watch, Modified>> \in EventSet
        /\ <<watch, Removed>> \notin EventSet
        /\ <<watch, Inserted>> \notin EventSet
        /\ watch \in changed

C7_Witness ==
    /\ liveAtStart
    /\ raw = <<Removed, Inserted, Modified>>

\* C8: for X not live at the start of the epoch, insert(X, v) then remove(X)
\* in the same epoch, with in-place mutations and maintain passes in between,
\* leaves the entry of X at None and X outside the Dirty Set.
C8_InsertRemoveCancels ==
    (~liveAtStart /\ structural = <<Inserted, Removed>>) =>
        /\ tag(watch) = None
        /\ watch \notin changed
        /\ \A e \in EventSet : e[1] # watch

C8_Witness ==
    /\ ~liveAtStart
    /\ raw = <<Inserted, Modified, Removed>>

C10_RemovedStaysRemoved ==
    (liveAtStart /\ raw # <<>> /\ raw[Len(raw)] = Removed) =>
        /\ tag(watch) = Removed
        /\ <<watch, Removed>> \in EventSet
        /\ watch \notin changed

C10_Witness ==
    /\ liveAtStart
    /\ raw = <<Modified, Removed>>
    /\ Live # {}
    /\ \E id \in Live : tag(id) = Modified

\* C11: when maintain runs after the last in-place mutation and reset follows
\* it, right after reset the snapshot of every live id equals its live value,
\* so a maintain pass run next detects no difference.
C11_ResetRebaselinesAll ==
    [][(op = "maintain" /\ op' = "reset") =>
          \A id \in Live' : old'[id] = storage'[id]]_vars

\* C12: the ids holding a value in the Snapshot Store are those holding one
\* in the Live Store; insert creates both entries, remove and clean delete
\* both, maintain, reset and get_mut create or delete neither.
C12_StoresHoldSameIds ==
    /\ [](populated(old) = populated(storage))
    /\ [][op' \in {"maintain", "reset", "get_mut"} =>
             /\ populated(old') = populated(old)
             /\ populated(storage') = populated(storage)]_vars
    /\ [][(op' = "insert" /\ ~fatal') =>
             \E id \in Ids \ Live :
                /\ populated(old') = populated(old) \cup {id}
                /\ populated(storage') = populated(storage) \cup {id}]_vars
    /\ [][(op' = "remove" /\ ~fatal') =>
             \E id \in Live :
                /\ populated(old') = populated(old) \ {id}
                /\ populated(storage') = populated(storage) \ {id}]_vars
    /\ [][op' = "clean" =>
             \E f \in SUBSET Ids :
                /\ populated(old') = populated(old) \ f
                /\ populated(storage') = populated(storage) \ f]_vars

C12_Witness ==
    /\ op = "clean"
    /\ populated(old) # {}
    /\ \E id \in Ids \ Live : tag(id) = Inserted

\* C15: get_mut, with the overwrite through the returned reference, leaves
\* the Change Log, the Dirty Set and the Snapshot Store unchanged, so the
\* modification shows neither in events() nor in the Dirty Set before a
\* maintain pass.
C15_GetMutLeavesTracking ==
    [][op' = "get_mut" =>
          /\ changes' = changes
          /\ changed' = changed
          /\ old' = old
          /\ change_events' = change_events]_vars

C15_Witness ==
    /\ op = "get_mut"
    /\ \E id \in Live : /\ old[id] # storage[id]
                        /\ tag(id) = None
                        /\ id \notin changed

\* C16: clean drops the same ids from both stores and leaves the Change Log
\* and the Dirty Set unchanged; the entry of a reclaimed id that was never
\* removed stays as it is until the next reset.
C16_CleanLeavesTracking ==
    /\ [][op' = "clean" =>
             /\ changes' = changes
             /\ changed' = changed
             /\ populated(old) \ populated(old')
                   = populated(storage) \ populated(storage')
             /\ \A id \in populated(storage') :
                   old'[id] = old[id] /\ storage'[id] = storage[id]]_vars
    /\ [][\A id \in Ids \ Live :
             (tag(id) \in {Inserted, Modified} /\ op' # "reset") =>
                 tag_of(changes', id) = tag(id)]_vars

C16_Witness ==
    /\ op = "maintain"
    /\ \E id \in Ids \ Live : tag(id) = Modified

\* C17: for a liveness-respecting caller the fatal error is unreachable: an
\* entry Inserted or Modified belongs to a live id and an entry Removed to an
\* id that is not live, so no record call meets an invalid pair.
C17_NoFatalError ==
    /\ ~fatal
    /\ \A id \in Ids :
          /\ tag(id) \in {Inserted, Modified} => id \in Live
          /\ tag(id) = Removed => id \notin Live

C17_Witness ==
    /\ op = "maintain"
    /\ \E a \in Ids, b \in Ids : tag(a) = Modified /\ tag(b) = Removed

\* C18: every id in the Dirty Set holds a value in the Live Store and in the
\* Snapshot Store, whatever inserts, removes, maintain passes, resets and
\* cleans came before.
C18_DirtyIdsHoldValues ==
    changed \subseteq (populated(storage) \cap populated(old))

RECURSIVE fold_merge(_)
fold_merge(events) ==
    IF events = <<>> THEN None
    ELSE LET before == fold_merge(SubSeq(events, 1, Len(events) - 1))
         IN IF before = "invalid" THEN "invalid"
            ELSE merge(before, events[Len(events)])

\* C13: with no reset in between, the Change Log entry of X is the left fold
\* of merge, from None, over the events applied to X in order; when the fold
\* meets an invalid pair the run has ended in the fatal error and no tag was
\* produced for that event.
C13_TagIsFoldOfEvents ==
    IF fold_merge(raw) = "invalid"
    THEN /\ fatal
         /\ tag(watch) = fold_merge(SubSeq(raw, 1, Len(raw) - 1))
    ELSE tag(watch) = fold_merge(raw)

C13_Witness ==
    /\ fatal
    /\ raw = <<Inserted, Modified, Inserted>>


\* C14: reading events() changes neither the Change Log, the Dirty Set, the
\* Snapshot Store nor the Live Store, and the sequences collected by reads
\* with no mutating operation between them are identical.
C14_EventsReadOnly ==
    /\ [][(reader'.pos # NoIter \/ Len(reader'.got) > Len(reader.got)) =>
             /\ changes' = changes
             /\ changed' = changed
             /\ old' = old
             /\ storage' = storage]_vars
    /\ [](\A i \in 1..Len(reader.got), j \in 1..Len(reader.got) :
             reader.got[i] = reader.got[j])

C14_Witness ==
    /\ Len(reader.got) = 2
    /\ Len(reader.got[1]) = 2
    /\ reader.pos = NoIter

\* C20: with no reset in between, the Dirty Set read after a maintain pass
\* contains only the ids inserted or overwritten since the previous maintain
\* pass.
C20_DirtySetSincePreviousMaintain ==
    join.fresh => changed \subseteq join.last
====
